---- MODULE Spec2Model ----
(***************************************************************************)
(* Model of quantization_pruning.ipynb: a notebook that trains a baseline  *)
(* MNIST classifier and then applies post-training quantization,           *)
(* quantization-aware training and magnitude pruning, recording model size *)
(* and test accuracy in the dictionaries MODEL_SIZE and ACCURACY.          *)
(*                                                                         *)
(* Three specifications share the variables:                                 *)
(*   Spec      the top-to-bottom run of the notebook's statements;         *)
(*   SpecEval  one call of evaluate_tflite_model, statement by statement;  *)
(*   SpecPruneFit  the call model_for_pruning.fit, training step by step.  *)
(* Values produced inside the framework (weights, file bytes, accuracies   *)
(* of the run) are carried as provenance terms: which model, which         *)
(* training calls, which converter options produced them.                  *)
(***************************************************************************)
EXTENDS Integers, Sequences, FiniteSets, TLC

VARIABLES
  pc,              \* index in Program of the next statement to execute
  failed,          \* an uncaught exception has ended the run
  files,           \* the working directory: file name -> content
  tmpfiles,        \* number of temporary zip files left by get_gzipped_model_size
  models,          \* the Keras model objects: variable name -> model
  dataset,         \* what mnist.load_data() returned (raw pixels)
  train_images,    \* the variable train_images (pixels as rationals <<num, den>>)
  test_images,     \* the variable test_images
  MODEL_SIZE,      \* the dictionary MODEL_SIZE: set of [key, val]
  ACCURACY,        \* the dictionary ACCURACY: set of [key, val]
  console,         \* what print_metric has printed, in order
  assigned,        \* history: every dictionary assignment made so far
  reads,           \* history: every read of an artifact file
  fed,             \* history: the image arrays handed to fit/evaluate calls
  conversions,     \* history: every converter.convert() of convert_tflite
  end_step,        \* the variable end_step (-1 before it is computed)
  fit_pc,          \* model_for_pruning.fit: "idle", "training", "done" or "failed"
  fit_step,        \* training steps model_for_pruning.fit has performed
  sparse_at,       \* the step at which the schedule reached final sparsity (-1: not yet)
  ev_pc,           \* evaluate_tflite_model: position in the function
  x_test,          \* evaluate_tflite_model: argument x_test (image ids)
  y_test,          \* evaluate_tflite_model: argument y_test (labels)
  ev_i,            \* evaluate_tflite_model: loop index i of enumerate(x_test)
  in_tensor,       \* interpreter: the input tensor (image id, 0 = unset)
  out_tensor,      \* interpreter: the output tensor (scores per class)
  prediction_digits, \* evaluate_tflite_model: the list prediction_digits
  accuracy,        \* evaluate_tflite_model: the returned value <<num, den>>
  interp_log       \* history: the interpreter calls made, in order

runVars == <<pc, failed, files, tmpfiles, models, dataset, train_images, test_images,
             MODEL_SIZE, ACCURACY, console, assigned, reads, fed, conversions,
             end_step, fit_pc, fit_step, sparse_at>>
evalVars == <<ev_pc, x_test, y_test, ev_i, in_tensor, out_tensor, prediction_digits,
              accuracy, interp_log>>
vars == <<runVars, evalVars>>

----------------------------------------------------------------------------
(* Bounds of the model *)

\* pixels per image array in the run
NumPixels == 2
\* largest test set handed to evaluate_tflite_model
MaxTest == 2
\* number of output classes of the interpreter's model
MaxClasses == 2

\* raw pixel values mnist.load_data() may hold (uint8: 0..255)
RawPixels == {0, 128, 255}
\* scores an output tensor may hold per class
Scores == {0, 1}

----------------------------------------------------------------------------
(* Program constants *)

FILE_WEIGHTS == "baseline_weights.h5"
FILE_NON_QUANTIZED_H5 == "non_quantized.h5"
FILE_NON_QUANTIZED_TFLITE == "non_quantized.tflite"
FILE_PT_QUANTIZED == "post_training_quantized.tflite"
FILE_QAT_QUANTIZED == "quant_aware_quantized.tflite"
FILE_PRUNED_MODEL_H5 == "pruned_model.h5"
FILE_PRUNED_QUANTIZED_TFLITE == "pruned_quantized.tflite"
FILE_PRUNED_NON_QUANTIZED_TFLITE == "pruned_non_quantized.tflite"

\* the file-name constants the notebook declares
FileConstants ==
  {FILE_WEIGHTS, FILE_NON_QUANTIZED_H5, FILE_NON_QUANTIZED_TFLITE, FILE_PT_QUANTIZED,
   FILE_QAT_QUANTIZED, FILE_PRUNED_MODEL_H5, FILE_PRUNED_QUANTIZED_TFLITE,
   FILE_PRUNED_NON_QUANTIZED_TFLITE}

\* train_images / 255.0
PixelScale == 255
\* train_images.shape[0] of the MNIST training set
TrainSetSize == 60000
\* batch_size = 128 (used for end_step only)
batch_size == 128
\* epochs = 2
epochs == 2
\* validation_split = 0.1, in percent
validation_split_pct == 10
\* the batch size of a fit call that passes none
FitDefaultBatchSize == 32

ModelNames == {"baseline_model", "model_to_quantize", "q_aware_model",
               "model_for_pruning", "model_for_export"}

----------------------------------------------------------------------------
(* The notebook's statements *)

NoArgs == [epochs |-> 0, val_pct |-> 0, callbacks |-> FALSE]

\* one statement of the notebook: its source line, the call it makes and the
\* names it mentions ("" where it mentions none)
St(line, op, model, src, file, table, key, quantize) ==
  [line |-> line, op |-> op, model |-> model, src |-> src, file |-> file,
   table |-> table, key |-> key, quantize |-> quantize, args |-> NoArgs]

FitSt(line, model, ep, val, cb) ==
  [St(line, "fit", model, "train_images", "", "", "", "")
     EXCEPT !.args = [epochs |-> ep, val_pct |-> val, callbacks |-> cb]]

CellSetup ==
  << St(43, "reset", "", "", "", "MODEL_SIZE", "", ""),
     St(44, "reset", "", "", "", "ACCURACY", "", ""),
     St(62, "load_data", "", "", "", "", "", ""),
     St(65, "normalize", "", "train_images", "", "", "", ""),
     St(66, "normalize", "", "test_images", "", "", "", "") >>

CellBaseline ==
  << St(232, "build", "baseline_model", "", "", "", "", ""),
     St(235, "save_weights", "baseline_model", "", FILE_WEIGHTS, "", "", ""),
     St(257, "compile", "baseline_model", "", "", "", "", ""),
     FitSt(262, "baseline_model", 1, 0, FALSE),
     St(265, "keras_evaluate", "baseline_model", "test_images", "", "ACCURACY",
        "baseline Keras model", ""),
     St(284, "save", "baseline_model", "", FILE_NON_QUANTIZED_H5, "", "", ""),
     St(287, "getsize", "", "", FILE_NON_QUANTIZED_H5, "MODEL_SIZE", "baseline h5", ""),
     St(290, "print", "", "", "", "ACCURACY", "", ""),
     St(291, "print", "", "", "", "MODEL_SIZE", "", ""),
     St(356, "convert_tflite", "baseline_model", "", FILE_NON_QUANTIZED_TFLITE, "", "",
        "unset"),
     St(374, "getsize", "", "", FILE_NON_QUANTIZED_TFLITE, "MODEL_SIZE",
        "non quantized tflite", ""),
     St(376, "print", "", "", "", "MODEL_SIZE", "", ""),
     St(394, "evaluate_tflite", "", "test_images", FILE_NON_QUANTIZED_TFLITE, "ACCURACY",
        "non quantized tflite", ""),
     St(395, "print", "", "", "", "ACCURACY", "", "") >>

CellPostTraining ==
  << St(445, "convert_tflite", "baseline_model", "", FILE_PT_QUANTIZED, "", "", "True"),
     St(448, "getsize", "", "", FILE_PT_QUANTIZED, "MODEL_SIZE",
        "post training quantized tflite", ""),
     St(450, "print", "", "", "", "MODEL_SIZE", "", ""),
     St(452, "evaluate_tflite", "", "test_images", FILE_PT_QUANTIZED, "ACCURACY",
        "post training quantized tflite", ""),
     St(454, "print", "", "", "", "ACCURACY", "", "") >>

CellQuantAware ==
  << St(524, "build", "model_to_quantize", "", "", "", "", ""),
     St(527, "load_weights", "model_to_quantize", "", FILE_WEIGHTS, "", "", ""),
     St(530, "quantize_model", "q_aware_model", "model_to_quantize", "", "", "", ""),
     St(533, "compile", "q_aware_model", "", "", "", "", ""),
     FitSt(564, "q_aware_model", 1, 0, FALSE),
     St(613, "reset", "", "", "", "ACCURACY", "", ""),
     St(616, "keras_evaluate", "q_aware_model", "test_images", "", "ACCURACY",
        "quantization aware non-quantized", ""),
     St(617, "print", "", "", "", "ACCURACY", "", ""),
     St(620, "convert_tflite", "q_aware_model", "", FILE_QAT_QUANTIZED, "", "", "True"),
     St(623, "evaluate_tflite", "", "test_images", FILE_QAT_QUANTIZED, "ACCURACY",
        "quantization aware quantized", ""),
     St(624, "print", "", "", "", "ACCURACY", "", "") >>

CellPruning ==
  << St(683, "end_step", "", "train_images", "", "", "", ""),
     St(694, "prune_low_magnitude", "model_for_pruning", "baseline_model", "", "", "", ""),
     St(697, "compile", "model_for_pruning", "", "", "", "", ""),
     FitSt(796, "model_for_pruning", epochs, validation_split_pct, TRUE),
     St(894, "strip_pruning", "model_for_export", "model_for_pruning", "", "", "", ""),
     St(987, "save", "model_for_export", "", FILE_PRUNED_MODEL_H5, "", "", ""),
     St(990, "reset", "", "", "", "MODEL_SIZE", "", ""),
     St(991, "getsize", "", "", FILE_NON_QUANTIZED_H5, "MODEL_SIZE", "baseline h5", ""),
     St(992, "getsize", "", "", FILE_PRUNED_MODEL_H5, "MODEL_SIZE",
        "pruned non quantized h5", ""),
     St(994, "print", "", "", "", "MODEL_SIZE", "", ""),
     St(1013, "reset", "", "", "", "MODEL_SIZE", "", ""),
     St(1014, "gzip_size", "", "", FILE_NON_QUANTIZED_H5, "MODEL_SIZE", "baseline h5", ""),
     St(1015, "gzip_size", "", "", FILE_PRUNED_MODEL_H5, "MODEL_SIZE",
        "pruned non quantized h5", ""),
     St(1017, "print", "", "", "", "MODEL_SIZE", "", ""),
     St(1058, "convert_tflite", "model_for_export", "", FILE_PRUNED_QUANTIZED_TFLITE, "",
        "", "True"),
     St(1061, "gzip_size", "", "", FILE_PRUNED_QUANTIZED_TFLITE, "MODEL_SIZE",
        "pruned quantized tflite", ""),
     St(1062, "print", "", "", "", "MODEL_SIZE", "", ""),
     St(1082, "reset", "", "", "", "ACCURACY", "", ""),
     St(1084, "keras_evaluate", "model_for_pruning", "test_images", "", "ACCURACY",
        "pruned model h5", ""),
     St(1085, "evaluate_tflite", "", "test_images", FILE_PRUNED_QUANTIZED_TFLITE,
        "ACCURACY", "pruned and quantized tflite", ""),
     St(1087, "print", "", "", "", "ACCURACY", "", "") >>

\* the cells in the order they appear in the notebook
Notebook == CellSetup \o CellBaseline \o CellPostTraining \o CellQuantAware \o CellPruning

\* variants of the run used to test the properties below
WithoutLine(l) == SelectSeq(Notebook, LAMBDA st : st.line # l)
MoveAfter(l, after) ==
  LET moved == SelectSeq(Notebook, LAMBDA st : st.line = l)
      rest  == WithoutLine(l)
      k     == CHOOSE i \in 1..Len(rest) : rest[i].line = after
  IN  SubSeq(rest, 1, k) \o moved \o SubSeq(rest, k + 1, Len(rest))
MoveBefore(l, before) ==
  LET moved == SelectSeq(Notebook, LAMBDA st : st.line = l)
      rest  == WithoutLine(l)
      k     == CHOOSE i \in 1..Len(rest) : rest[i].line = before
  IN  SubSeq(rest, 1, k - 1) \o moved \o SubSeq(rest, k, Len(rest))

WithFileAt(l, f) ==
  [i \in 1..Len(Notebook) |->
     IF Notebook[i].line = l THEN [Notebook[i] EXCEPT !.file = f] ELSE Notebook[i]]
WithModelAt(l, m) ==
  [i \in 1..Len(Notebook) |->
     IF Notebook[i].line = l THEN [Notebook[i] EXCEPT !.model = m] ELSE Notebook[i]]

ProgramWithoutPrunedConvert == WithoutLine(1058)
ProgramSaveWeightsAfterFit == MoveAfter(235, 262)
ProgramWithoutPostTrainingSize == WithoutLine(448)
ProgramWithoutPostTrainingPrint == WithoutLine(454)
ProgramGetsizeBeforeSave == MoveBefore(287, 284)
ProgramLoadsTrainedModel == WithFileAt(527, FILE_NON_QUANTIZED_H5)
ProgramEvaluatesBaseline == WithModelAt(1084, "baseline_model")
ProgramPostTrainingAfterPruning == MoveAfter(445, 796)

\* a top-to-bottom run executes the cells' statements in notebook order
Program == Notebook

Done == pc = Len(Program) + 1
Running == ~failed /\ pc \in 1..Len(Program)
Cur == Program[pc]

\* the section of the notebook (its markdown headings) a source line lies in
Stage(line) ==
  IF line < 192 THEN "setup"
  ELSE IF line < 402 THEN "baseline"
  ELSE IF line < 461 THEN "post_training"
  ELSE IF line < 631 THEN "quant_aware"
  ELSE "pruning"

----------------------------------------------------------------------------
(* Values *)

NoWeights == [init |-> "", fits |-> <<>>]
\* a model variable that has not been assigned
NoModel == [built |-> FALSE, weights |-> NoWeights, compiled |-> FALSE, wraps |-> "",
            sched_end |-> -1]
\* a file that does not exist / a file left in the directory by something else
NoFile == [kind |-> "absent", model |-> "", weights |-> NoWeights, optimized |-> FALSE]
StaleFile == [kind |-> "stale", model |-> "",
              weights |-> [init |-> "stale", fits |-> <<>>], optimized |-> FALSE]

\* files this run has written completely
WrittenFiles == {f \in DOMAIN files : files[f].kind \in {"weights", "h5", "tflite"}}
Exists(f) == files[f].kind # "absent"

Table(t) == IF t = "MODEL_SIZE" THEN MODEL_SIZE ELSE ACCURACY
Keys(d) == {e.key : e \in d}
\* d[k] = v
DictSet(d, k, v) == {e \in d : e.key # k} \cup {[key |-> k, val |-> v]}

\* a measured value: how it was obtained and of what
Val(how, subject, weights, optimized) ==
  [how |-> how, subject |-> subject, weights |-> weights, optimized |-> optimized]

Images(name) == IF name = "train_images" THEN train_images ELSE test_images
Loaded == Len(dataset.train) > 0

CeilDiv(a, b) == (a + b - 1) \div b

\* image / 255.0
Normalize256(p) == <<p[1], p[2] * (PixelScale + 1)>>
Normalize(p) == <<p[1], p[2] * PixelScale>>

\* np.ceil(shape0 * (1 - validation_split) / batch_size).astype(np.int32) * epochs
EndStep(shape0) ==
  CeilDiv(shape0 * (100 - validation_split_pct), 100 * batch_size) * epochs

\* the number of training steps of fit(x, epochs, validation_split) with no batch_size
\* given: the first int(n * (1 - validation_split)) samples in batches of the default size
FitSteps(n, args) ==
  CeilDiv((n * (100 - args.val_pct)) \div 100, FitDefaultBatchSize) * args.epochs

\* UpdatePruningStep after one more training step: the schedule
\* PolynomialDecay(begin_step=0, end_step=sched_end) is at its final sparsity once
\* the step count has reached sched_end; sparse is the step at which that first
\* happened (-1: not yet)
SparseAtNext(sparse, step, sched_end) ==
  IF sparse = -1 /\ step >= sched_end THEN step ELSE sparse

\* the same after a whole fit of total steps
FirstFinalStep(total, sched_end) ==
  IF sched_end > total THEN -1
  ELSE IF sched_end < 1 THEN 1
  ELSE sched_end

\* the quantize parameter as convert_tflite receives it: quantize=False by default
QuantizeParam(st) == IF st.quantize = "unset" THEN FALSE ELSE st.quantize = "True"

\* convert_tflite's body: the bytes it writes for model m
convert_always_optimized(m, quantize) ==
  [kind |-> "tflite", model |-> m, weights |-> models[m].weights, optimized |-> TRUE]
convert_tflite(m, quantize) ==
  [kind |-> "tflite", model |-> m, weights |-> models[m].weights, optimized |-> quantize]

----------------------------------------------------------------------------
(* The run: one action per kind of statement *)

EvalIdle ==
  /\ ev_pc = "idle" /\ x_test = <<>> /\ y_test = <<>> /\ ev_i = 0
  /\ in_tensor = 0 /\ out_tensor = <<>> /\ prediction_digits = <<>>
  /\ accuracy = <<0, 0>> /\ interp_log = <<>>

InitRun ==
  /\ pc = 1 /\ failed = FALSE
  /\ \E before \in {NoFile, StaleFile} : files = [f \in FileConstants |-> before]
  /\ tmpfiles = 0
  /\ models = [m \in ModelNames |-> NoModel]
  /\ dataset = [train |-> <<>>, test |-> <<>>]
  /\ train_images = <<>> /\ test_images = <<>>
  /\ MODEL_SIZE = {} /\ ACCURACY = {}
  /\ console = <<>> /\ assigned = {} /\ reads = {} /\ fed = {} /\ conversions = {}
  /\ end_step = -1 /\ fit_pc = "idle" /\ fit_step = 0 /\ sparse_at = -1

Init == InitRun /\ EvalIdle

dataVars == <<dataset, train_images, test_images>>
tableVars == <<MODEL_SIZE, ACCURACY, assigned>>
pruneVars == <<end_step, fit_pc, fit_step, sparse_at>>

\* table[key] = val, for the dictionary and key the statement names
Store(st, val) ==
  /\ MODEL_SIZE' = IF st.table = "MODEL_SIZE" THEN DictSet(MODEL_SIZE, st.key, val)
                   ELSE MODEL_SIZE
  /\ ACCURACY' = IF st.table = "ACCURACY" THEN DictSet(ACCURACY, st.key, val)
                 ELSE ACCURACY
  /\ assigned' = assigned \cup
       {[table |-> st.table, key |-> st.key, line |-> st.line, val |-> val]}

\* MODEL_SIZE = {}  /  ACCURACY = {}
ResetTable ==
  /\ Running /\ Cur.op = "reset"
  /\ MODEL_SIZE' = IF Cur.table = "MODEL_SIZE" THEN {} ELSE MODEL_SIZE
  /\ ACCURACY' = IF Cur.table = "ACCURACY" THEN {} ELSE ACCURACY
  /\ pc' = pc + 1
  /\ UNCHANGED <<failed, files, tmpfiles, models, dataVars, console, assigned, reads, fed,
                 conversions, pruneVars, evalVars>>

\* (train_images, train_labels), (test_images, test_labels) = mnist.load_data()
LoadData ==
  /\ Running /\ Cur.op = "load_data"
  /\ \E tr \in [1..NumPixels -> RawPixels], te \in [1..NumPixels -> RawPixels] :
       /\ dataset' = [train |-> tr, test |-> te]
       /\ train_images' = [i \in 1..NumPixels |-> <<tr[i], 1>>]
       /\ test_images' = [i \in 1..NumPixels |-> <<te[i], 1>>]
  /\ pc' = pc + 1
  /\ UNCHANGED <<failed, files, tmpfiles, models, tableVars, console, reads, fed,
                 conversions, pruneVars, evalVars>>

\* train_images = train_images / 255.0  /  test_images = test_images / 255.0
NormalizeImages ==
  /\ Running /\ Cur.op = "normalize" /\ Loaded
  /\ train_images' = IF Cur.src = "train_images"
                     THEN [i \in DOMAIN train_images |-> Normalize(train_images[i])]
                     ELSE train_images
  /\ test_images' = IF Cur.src = "test_images"
                    THEN [i \in DOMAIN test_images |-> Normalize(test_images[i])]
                    ELSE test_images
  /\ pc' = pc + 1
  /\ UNCHANGED <<failed, files, tmpfiles, models, dataset, tableVars, console, reads, fed,
                 conversions, pruneVars, evalVars>>

\* m = model_builder(): a new model with freshly initialised weights
BuildModel ==
  /\ Running /\ Cur.op = "build"
  /\ models' = [models EXCEPT ![Cur.model] =
                  [built |-> TRUE, weights |-> [init |-> Cur.model, fits |-> <<>>],
                   compiled |-> FALSE, wraps |-> "", sched_end |-> -1]]
  /\ pc' = pc + 1
  /\ UNCHANGED <<failed, files, tmpfiles, dataVars, tableVars, console, reads, fed,
                 conversions, pruneVars, evalVars>>

\* m.save_weights(file)
SaveWeights ==
  /\ Running /\ Cur.op = "save_weights" /\ models[Cur.model].built
  /\ files' = [files EXCEPT ![Cur.file] =
                 [kind |-> "weights", model |-> Cur.model,
                  weights |-> models[Cur.model].weights, optimized |-> FALSE]]
  /\ pc' = pc + 1
  /\ UNCHANGED <<failed, tmpfiles, models, dataVars, tableVars, console, reads, fed,
                 conversions, pruneVars, evalVars>>

\* m.compile(optimizer='adam', ...)
Compile ==
  /\ Running /\ Cur.op = "compile" /\ models[Cur.model].built
  /\ models' = [models EXCEPT ![Cur.model].compiled = TRUE]
  /\ pc' = pc + 1
  /\ UNCHANGED <<failed, files, tmpfiles, dataVars, tableVars, console, reads, fed,
                 conversions, pruneVars, evalVars>>

\* m.fit(train_images, train_labels, epochs=1, shuffle=False)
Fit ==
  /\ Running /\ Cur.op = "fit" /\ ~Cur.args.callbacks
  /\ models[Cur.model].built /\ models[Cur.model].compiled
  /\ models' = [models EXCEPT ![Cur.model].weights.fits = Append(@, Cur.line)]
  /\ fed' = fed \cup {[line |-> Cur.line, src |-> Cur.src, images |-> Images(Cur.src)]}
  /\ pc' = pc + 1
  /\ UNCHANGED <<failed, files, tmpfiles, dataVars, tableVars, console, reads,
                 conversions, pruneVars, evalVars>>

\* model_for_pruning.fit(train_images, train_labels, epochs=epochs,
\*                       validation_split=validation_split, callbacks=callbacks),
\* the whole call (SpecPruneFit takes it step by step): it performs FitSteps
\* training steps, and the pruning schedule is at its final sparsity from step
\* sched_end on
FitPruning ==
  /\ Running /\ Cur.op = "fit" /\ Cur.args.callbacks
  /\ models[Cur.model].built /\ models[Cur.model].compiled
  /\ models[Cur.model].wraps = "prune"
  /\ fit_pc' = "done"
  /\ fit_step' = FitSteps(TrainSetSize, Cur.args)
  /\ sparse_at' = FirstFinalStep(FitSteps(TrainSetSize, Cur.args),
                                 models[Cur.model].sched_end)
  /\ models' = [models EXCEPT ![Cur.model].weights.fits = Append(@, Cur.line)]
  /\ fed' = fed \cup {[line |-> Cur.line, src |-> Cur.src, images |-> Images(Cur.src)]}
  /\ pc' = pc + 1
  /\ UNCHANGED <<failed, files, tmpfiles, dataVars, tableVars, console, reads,
                 conversions, end_step, evalVars>>

\* _, ACCURACY[key] = m.evaluate(test_images, test_labels)
KerasEvaluate ==
  /\ Running /\ Cur.op = "keras_evaluate"
  /\ models[Cur.model].built /\ models[Cur.model].compiled
  /\ Store(Cur, Val("keras_evaluate", Cur.model, models[Cur.model].weights, FALSE))
  /\ fed' = fed \cup {[line |-> Cur.line, src |-> Cur.src, images |-> Images(Cur.src)]}
  /\ pc' = pc + 1
  /\ UNCHANGED <<failed, files, tmpfiles, models, dataVars, console, reads,
                 conversions, pruneVars, evalVars>>

\* m.save(file, include_optimizer=False)
SaveModel ==
  /\ Running /\ Cur.op = "save" /\ models[Cur.model].built
  /\ files' = [files EXCEPT ![Cur.file] =
                 [kind |-> "h5", model |-> Cur.model,
                  weights |-> models[Cur.model].weights, optimized |-> FALSE]]
  /\ pc' = pc + 1
  /\ UNCHANGED <<failed, tmpfiles, models, dataVars, tableVars, console, reads, fed,
                 conversions, pruneVars, evalVars>>

\* MODEL_SIZE[key] = os.path.getsize(file)
GetSize ==
  /\ Running /\ Cur.op = "getsize" /\ Exists(Cur.file)
  /\ reads' = reads \cup {[line |-> Cur.line, file |-> Cur.file,
                           kind |-> files[Cur.file].kind]}
  /\ Store(Cur, Val("getsize", Cur.file, files[Cur.file].weights,
                    files[Cur.file].optimized))
  /\ pc' = pc + 1
  /\ UNCHANGED <<failed, files, tmpfiles, models, dataVars, console, fed,
                 conversions, pruneVars, evalVars>>

\* MODEL_SIZE[key] = get_gzipped_model_size(file): zips the file into a new
\* temporary file and returns that file's size
GetGzippedModelSize ==
  /\ Running /\ Cur.op = "gzip_size" /\ Exists(Cur.file)
  /\ tmpfiles' = tmpfiles + 1
  /\ reads' = reads \cup {[line |-> Cur.line, file |-> Cur.file,
                           kind |-> files[Cur.file].kind]}
  /\ Store(Cur, Val("gzip_size", Cur.file, files[Cur.file].weights,
                    files[Cur.file].optimized))
  /\ pc' = pc + 1
  /\ UNCHANGED <<failed, files, models, dataVars, console, fed,
                 conversions, pruneVars, evalVars>>

\* print_metric(table, name): prints every entry of the dictionary
PrintMetric ==
  /\ Running /\ Cur.op = "print"
  /\ console' = Append(console, [table |-> Cur.table, line |-> Cur.line,
                                 keys |-> Keys(Table(Cur.table))])
  /\ pc' = pc + 1
  /\ UNCHANGED <<failed, files, tmpfiles, models, dataVars, tableVars, reads, fed,
                 conversions, pruneVars, evalVars>>

\* convert_tflite(m, file, quantize): converts and writes the file
ConvertTflite ==
  /\ Running /\ Cur.op = "convert_tflite" /\ models[Cur.model].built
  /\ files' = [files EXCEPT ![Cur.file] = convert_tflite(Cur.model, QuantizeParam(Cur))]
  /\ conversions' = conversions \cup
       {[line |-> Cur.line, file |-> Cur.file, quantize |-> Cur.quantize,
         optimized |-> convert_tflite(Cur.model, QuantizeParam(Cur)).optimized]}
  /\ pc' = pc + 1
  /\ UNCHANGED <<failed, tmpfiles, models, dataVars, tableVars, console, reads, fed,
                 pruneVars, evalVars>>

\* ACCURACY[key] = evaluate_tflite_model(file, test_images, test_labels)
\* (the function's body is the subject of SpecEval)
EvaluateTflite ==
  /\ Running /\ Cur.op = "evaluate_tflite" /\ files[Cur.file].kind \in {"tflite", "stale"}
  /\ reads' = reads \cup {[line |-> Cur.line, file |-> Cur.file,
                           kind |-> files[Cur.file].kind]}
  /\ fed' = fed \cup {[line |-> Cur.line, src |-> Cur.src, images |-> Images(Cur.src)]}
  /\ Store(Cur, Val("evaluate_tflite", Cur.file, files[Cur.file].weights,
                    files[Cur.file].optimized))
  /\ pc' = pc + 1
  /\ UNCHANGED <<failed, files, tmpfiles, models, dataVars, console,
                 conversions, pruneVars, evalVars>>

\* m.load_weights(file)
LoadWeights ==
  /\ Running /\ Cur.op = "load_weights" /\ models[Cur.model].built
  /\ files[Cur.file].kind \in {"weights", "h5", "stale"}
  /\ reads' = reads \cup {[line |-> Cur.line, file |-> Cur.file,
                           kind |-> files[Cur.file].kind]}
  /\ models' = [models EXCEPT ![Cur.model].weights = files[Cur.file].weights]
  /\ pc' = pc + 1
  /\ UNCHANGED <<failed, files, tmpfiles, dataVars, tableVars, console, fed,
                 conversions, pruneVars, evalVars>>

\* q_aware_model = quantize_model(model_to_quantize)
QuantizeModel ==
  /\ Running /\ Cur.op = "quantize_model" /\ models[Cur.src].built
  /\ models' = [models EXCEPT ![Cur.model] =
                  [built |-> TRUE, weights |-> models[Cur.src].weights,
                   compiled |-> FALSE, wraps |-> "quantize", sched_end |-> -1]]
  /\ pc' = pc + 1
  /\ UNCHANGED <<failed, files, tmpfiles, dataVars, tableVars, console, reads, fed,
                 conversions, pruneVars, evalVars>>

\* num_images = train_images.shape[0] * (1 - validation_split)
\* end_step = np.ceil(num_images / batch_size).astype(np.int32) * epochs
ComputeEndStep ==
  /\ Running /\ Cur.op = "end_step" /\ Loaded
  /\ end_step' = EndStep(TrainSetSize)
  /\ pc' = pc + 1
  /\ UNCHANGED <<failed, files, tmpfiles, models, dataVars, tableVars, console, reads, fed,
                 conversions, fit_pc, fit_step, sparse_at, evalVars>>

\* model_for_pruning = prune_low_magnitude(baseline_model, **pruning_params),
\* pruning_params holding PolynomialDecay(..., begin_step=0, end_step=end_step)
PruneLowMagnitude ==
  /\ Running /\ Cur.op = "prune_low_magnitude" /\ models[Cur.src].built /\ end_step >= 0
  /\ models' = [models EXCEPT ![Cur.model] =
                  [built |-> TRUE, weights |-> models[Cur.src].weights,
                   compiled |-> FALSE, wraps |-> "prune", sched_end |-> end_step]]
  /\ pc' = pc + 1
  /\ UNCHANGED <<failed, files, tmpfiles, dataVars, tableVars, console, reads, fed,
                 conversions, pruneVars, evalVars>>

\* model_for_export = strip_pruning(model_for_pruning)
StripPruning ==
  /\ Running /\ Cur.op = "strip_pruning" /\ models[Cur.src].built
  /\ models' = [models EXCEPT ![Cur.model] =
                  [built |-> TRUE, weights |-> models[Cur.src].weights,
                   compiled |-> FALSE, wraps |-> "", sched_end |-> -1]]
  /\ pc' = pc + 1
  /\ UNCHANGED <<failed, files, tmpfiles, dataVars, tableVars, console, reads, fed,
                 conversions, pruneVars, evalVars>>

\* statements that call into the framework, numpy or the file system; a dictionary
\* literal and a print of stored values do not
CanRaise(st) == st.op \notin {"reset", "print"}
WritesFile(st) == st.op \in {"save_weights", "save", "convert_tflite"}

\* a variant in which the dictionary entry is created before the call raises
RaiseAfterStore ==
  /\ Running /\ CanRaise(Cur)
  /\ failed' = TRUE
  /\ MODEL_SIZE' = IF Cur.table = "MODEL_SIZE"
                   THEN DictSet(MODEL_SIZE, Cur.key, Val("none", "", NoWeights, FALSE))
                   ELSE MODEL_SIZE
  /\ ACCURACY' = IF Cur.table = "ACCURACY"
                 THEN DictSet(ACCURACY, Cur.key, Val("none", "", NoWeights, FALSE))
                 ELSE ACCURACY
  /\ UNCHANGED <<pc, files, tmpfiles, models, dataVars, assigned, console, reads, fed,
                 conversions, pruneVars, evalVars>>

\* the statement raises: nothing catches it, and the run ends there. A call that
\* writes a file may have created the file before it raised; get_gzipped_model_size
\* may have created its temporary file; a fit may have trained for some steps. The
\* assignment the statement was to make does not happen.
Raise ==
  /\ Running /\ CanRaise(Cur)
  /\ failed' = TRUE
  /\ \E created \in BOOLEAN :
       /\ files' = IF created /\ WritesFile(Cur)
                   THEN [files EXCEPT ![Cur.file] =
                           [kind |-> "partial", model |-> Cur.model,
                            weights |-> NoWeights, optimized |-> FALSE]]
                   ELSE files
       /\ tmpfiles' = IF created /\ Cur.op = "gzip_size" THEN tmpfiles + 1 ELSE tmpfiles
       /\ models' = IF created /\ Cur.op = "fit" /\ models[Cur.model].built
                    THEN [models EXCEPT ![Cur.model].weights.fits = Append(@, Cur.line)]
                    ELSE models
  /\ UNCHANGED <<pc, dataVars, tableVars, console, reads, fed,
                 conversions, pruneVars, evalVars>>

NextRun ==
  \/ ResetTable \/ LoadData \/ NormalizeImages \/ BuildModel \/ SaveWeights
  \/ Compile \/ Fit \/ FitPruning \/ KerasEvaluate \/ SaveModel \/ GetSize
  \/ GetGzippedModelSize \/ PrintMetric \/ ConvertTflite \/ EvaluateTflite
  \/ LoadWeights \/ QuantizeModel \/ ComputeEndStep \/ PruneLowMagnitude
  \/ StripPruning \/ Raise

Next == NextRun

\* the top-to-bottom run of the notebook
Spec == Init /\ [][Next]_vars

----------------------------------------------------------------------------
(* evaluate_tflite_model(filename, x_test, y_test), statement by statement *)

\* np.argmax(v): the 0-based index of the first largest entry
ArgMaxLast(v) ==
  (CHOOSE i \in 1..Len(v) :
     /\ \A j \in 1..Len(v) : v[j] <= v[i]
     /\ \A j \in (i + 1)..Len(v) : v[j] < v[i]) - 1
ArgMax(v) ==
  (CHOOSE i \in 1..Len(v) :
     /\ \A j \in 1..Len(v) : v[j] <= v[i]
     /\ \A j \in 1..(i - 1) : v[j] < v[i]) - 1

\* (prediction_digits == y_test).mean() for arrays of equal length, as the
\* fraction <<number of equal positions, length>>; <<0, 0>> is the nan of an
\* empty array
MeanEqualOverAllButLast(pred, y) ==
  <<Cardinality({i \in 1..(Len(pred) - 1) : pred[i] = y[i]}), Len(pred)>>
MeanEqual(pred, y) ==
  <<Cardinality({i \in 1..Len(pred) : pred[i] = y[i]}), Len(pred)>>

Call(name, i, image, out) == [call |-> name, i |-> i, image |-> image, out |-> out]

RunIdle ==
  /\ pc = 0 /\ failed = FALSE
  /\ files = [f \in FileConstants |-> NoFile]
  /\ tmpfiles = 0
  /\ models = [m \in ModelNames |-> NoModel]
  /\ dataset = [train |-> <<>>, test |-> <<>>]
  /\ train_images = <<>> /\ test_images = <<>>
  /\ MODEL_SIZE = {} /\ ACCURACY = {}
  /\ console = <<>> /\ assigned = {} /\ reads = {} /\ fed = {} /\ conversions = {}
  /\ end_step = -1 /\ fit_pc = "idle" /\ fit_step = 0 /\ sparse_at = -1

\* the call's arguments: n test images (by id) and their n labels
InitEval ==
  /\ RunIdle
  /\ ev_pc = "start"
  /\ \E n \in 0..MaxTest :
       /\ x_test \in [1..n -> 1..MaxTest]
       /\ y_test \in [1..n -> 0..(MaxClasses - 1)]
  /\ ev_i = 0 /\ in_tensor = 0 /\ out_tensor = <<>>
  /\ prediction_digits = <<>> /\ accuracy = <<0, 0>> /\ interp_log = <<>>

\* interpreter = tf.lite.Interpreter(model_path=filename);
\* interpreter.allocate_tensors(); input_index, output_index; prediction_digits = []
EvStart ==
  /\ ev_pc = "start"
  /\ prediction_digits' = <<>>
  /\ interp_log' = Append(interp_log, Call("allocate_tensors", 0, 0, <<>>))
  /\ ev_pc' = "loop"
  /\ UNCHANGED <<runVars, x_test, y_test, ev_i, in_tensor, out_tensor, accuracy>>

\* a variant of the loop body that forgets interpreter.invoke()
EvSetTensorThenRead ==
  /\ ev_pc = "loop" /\ ev_i < Len(x_test)
  /\ ev_i' = ev_i + 1
  /\ in_tensor' = x_test[ev_i + 1]
  /\ interp_log' = Append(interp_log, Call("set_tensor", ev_i + 1, x_test[ev_i + 1], <<>>))
  /\ out_tensor' = [c \in 1..MaxClasses |-> 0]
  /\ ev_pc' = "read"
  /\ UNCHANGED <<runVars, x_test, y_test, prediction_digits, accuracy>>

\* for i, test_image in enumerate(x_test): test_image = expand_dims(...).astype(float32);
\* interpreter.set_tensor(input_index, test_image)
EvSetTensor ==
  /\ ev_pc = "loop" /\ ev_i < Len(x_test)
  /\ ev_i' = ev_i + 1
  /\ in_tensor' = x_test[ev_i + 1]
  /\ interp_log' = Append(interp_log, Call("set_tensor", ev_i + 1, x_test[ev_i + 1], <<>>))
  /\ ev_pc' = "invoke"
  /\ UNCHANGED <<runVars, x_test, y_test, out_tensor, prediction_digits, accuracy>>

\* interpreter.invoke(): the model computes its scores for the input tensor
EvInvoke ==
  /\ ev_pc = "invoke"
  /\ \E out \in [1..MaxClasses -> Scores] :
       /\ out_tensor' = out
       /\ interp_log' = Append(interp_log, Call("invoke", ev_i, in_tensor, out))
  /\ ev_pc' = "read"
  /\ UNCHANGED <<runVars, x_test, y_test, ev_i, in_tensor, prediction_digits, accuracy>>

\* output = interpreter.tensor(output_index); digit = np.argmax(output()[0]);
\* prediction_digits.append(digit)
EvReadOutput ==
  /\ ev_pc = "read"
  /\ prediction_digits' = Append(prediction_digits, ArgMax(out_tensor))
  /\ interp_log' = Append(interp_log, Call("tensor", ev_i, in_tensor, out_tensor))
  /\ ev_pc' = "loop"
  /\ UNCHANGED <<runVars, x_test, y_test, ev_i, in_tensor, out_tensor, accuracy>>

\* the loop is exhausted: accuracy = (prediction_digits == y_test).mean(); return
EvReturn ==
  /\ ev_pc = "loop" /\ ev_i = Len(x_test)
  /\ accuracy' = MeanEqual(prediction_digits, y_test)
  /\ ev_pc' = "done"
  /\ UNCHANGED <<runVars, x_test, y_test, ev_i, in_tensor, out_tensor,
                 prediction_digits, interp_log>>

NextEval == EvStart \/ EvSetTensor \/ EvInvoke \/ EvReadOutput \/ EvReturn

\* one call of evaluate_tflite_model
SpecEval == InitEval /\ [][NextEval]_vars

----------------------------------------------------------------------------
(* model_for_pruning.fit(...), training step by step *)

\* the keyword arguments of the call at lines 796-798
PruneFitArgs == [epochs |-> epochs, val_pct |-> validation_split_pct, callbacks |-> TRUE]

\* the state in which the call is made: end_step computed, model_for_pruning
\* wrapped with the schedule and compiled, baseline training behind it
InitPruneFit ==
  /\ pc = 0 /\ failed = FALSE
  /\ files = [f \in FileConstants |-> NoFile]
  /\ tmpfiles = 0
  /\ models = [m \in ModelNames |->
                 IF m = "model_for_pruning"
                 THEN [built |-> TRUE,
                       weights |-> [init |-> "baseline_model", fits |-> <<262>>],
                       compiled |-> TRUE, wraps |-> "prune",
                       sched_end |-> EndStep(TrainSetSize)]
                 ELSE NoModel]
  /\ dataset = [train |-> <<>>, test |-> <<>>]
  /\ train_images = <<>> /\ test_images = <<>>
  /\ MODEL_SIZE = {} /\ ACCURACY = {}
  /\ console = <<>> /\ assigned = {} /\ reads = {} /\ fed = {} /\ conversions = {}
  /\ end_step = EndStep(TrainSetSize)
  /\ fit_pc = "training" /\ fit_step = 0 /\ sparse_at = -1
  /\ EvalIdle

\* one training step on a batch, then the UpdatePruningStep callback
PfStep ==
  /\ fit_pc = "training"
  /\ fit_step < FitSteps(TrainSetSize, PruneFitArgs)
  /\ fit_step' = fit_step + 1
  /\ sparse_at' = SparseAtNext(sparse_at, fit_step + 1,
                               models["model_for_pruning"].sched_end)
  /\ models' = IF fit_step = 0
               THEN [models EXCEPT !["model_for_pruning"].weights.fits = Append(@, 796)]
               ELSE models
  /\ UNCHANGED <<pc, failed, files, tmpfiles, dataVars, tableVars, console, reads, fed,
                 conversions, end_step, fit_pc, evalVars>>

\* the last batch of the last epoch is done: fit returns
PfReturn ==
  /\ fit_pc = "training"
  /\ fit_step = FitSteps(TrainSetSize, PruneFitArgs)
  /\ fit_pc' = "done"
  /\ UNCHANGED <<pc, failed, files, tmpfiles, models, dataVars, tableVars, console, reads,
                 fed, conversions, end_step, fit_step, sparse_at, evalVars>>

\* a training step raises: fit does not return
PfRaise ==
  /\ fit_pc = "training"
  /\ fit_pc' = "failed"
  /\ failed' = TRUE
  /\ UNCHANGED <<pc, files, tmpfiles, models, dataVars, tableVars, console, reads,
                 fed, conversions, end_step, fit_step, sparse_at, evalVars>>

NextPruneFit == PfStep \/ PfReturn \/ PfRaise

SpecPruneFit == InitPruneFit /\ [][NextPruneFit]_vars

\* the whole-call action of the run and the step-by-step call end in the same state
PruneFitAgrees ==
  fit_pc = "done" =>
    /\ fit_step = FitSteps(TrainSetSize, PruneFitArgs)
    /\ sparse_at = FirstFinalStep(FitSteps(TrainSetSize, PruneFitArgs),
                                  models["model_for_pruning"].sched_end)
    /\ models["model_for_pruning"].weights.fits = <<262, 796>>

----------------------------------------------------------------------------
(* Properties of the run *)

IndexOfLine(l) == CHOOSE i \in 1..Len(Program) : Program[i].line = l
\* the statement at source line l has been executed
Past(l) == pc > IndexOfLine(l)
\* every statement of the stage has been executed
StageOver(stage) ==
  /\ ~failed
  /\ \A i \in 1..Len(Program) : Stage(Program[i].line) = stage => i < pc

SevenArtifacts ==
  {FILE_WEIGHTS, FILE_NON_QUANTIZED_H5, FILE_NON_QUANTIZED_TFLITE, FILE_PT_QUANTIZED,
   FILE_QAT_QUANTIZED, FILE_PRUNED_QUANTIZED_TFLITE, FILE_PRUNED_MODEL_H5}

\* C1 as stated: after a failure-free run exactly the seven artifacts have been
\* written, and every declared file-name constant names a written file.
C1_Original ==
  (Done /\ ~failed) => /\ WrittenFiles = SevenArtifacts
                       /\ FileConstants \subseteq WrittenFiles

\* C1 (amended): after a failure-free run the files written are exactly the seven
\* artifacts (one weights checkpoint, non_quantized.h5 and the unoptimized
\* non_quantized.tflite, three optimized .tflite exports, pruned_model.h5); the one
\* declared constant that names no written file is FILE_PRUNED_NON_QUANTIZED_TFLITE.
C1_SevenArtifacts ==
  (Done /\ ~failed) =>
    /\ WrittenFiles = SevenArtifacts
    /\ FileConstants \ WrittenFiles = {FILE_PRUNED_NON_QUANTIZED_TFLITE}
    /\ files[FILE_WEIGHTS].kind = "weights"
    /\ \A f \in {FILE_NON_QUANTIZED_H5, FILE_PRUNED_MODEL_H5} : files[f].kind = "h5"
    /\ files[FILE_NON_QUANTIZED_TFLITE].kind = "tflite"
    /\ ~files[FILE_NON_QUANTIZED_TFLITE].optimized
    /\ \A f \in {FILE_PT_QUANTIZED, FILE_QAT_QUANTIZED, FILE_PRUNED_QUANTIZED_TFLITE} :
         files[f].kind = "tflite" /\ files[f].optimized
    /\ files[FILE_PRUNED_MODEL_H5].model = "model_for_export"

C1_Witness ==
  Done /\ ~failed /\ files[FILE_PRUNED_NON_QUANTIZED_TFLITE].kind = "absent"

InitialBaselineWeights == [init |-> "baseline_model", fits |-> <<>>]

\* C2 as stated: the checkpoint is written after baseline training, so whenever
\* baseline_weights.h5 has been written it holds trained weights.
C2_Original ==
  files[FILE_WEIGHTS].kind = "weights" => files[FILE_WEIGHTS].weights.fits # <<>>

\* C2 (amended): the checkpoint holds the baseline model's initial weights: it is
\* written before baseline training, so by the time baseline_model has been trained
\* the file exists, and whenever it exists it holds the untrained weights.
C2_CheckpointIsInitial ==
  /\ files[FILE_WEIGHTS].kind = "weights" =>
       files[FILE_WEIGHTS].weights = InitialBaselineWeights
  /\ models["baseline_model"].weights.fits # <<>> =>
       files[FILE_WEIGHTS].kind = "weights"

C2_Witness ==
  /\ models["baseline_model"].weights.fits = <<262>>
  /\ files[FILE_WEIGHTS].kind = "weights"
  /\ Done

Techniques == {"post_training", "quant_aware", "pruning"}

\* what a section of the notebook produces: the files it writes and the model
\* objects it creates
Products(stage) ==
  {Program[i].file : i \in {j \in 1..Len(Program) :
       Stage(Program[j].line) = stage /\ WritesFile(Program[j])}}
  \cup
  {Program[i].model : i \in {j \in 1..Len(Program) :
       /\ Stage(Program[j].line) = stage
       /\ Program[j].op \in {"build", "quantize_model", "prune_low_magnitude",
                             "strip_pruning"}}}

\* the section has stored, in the named dictionary, a measurement of something it produced
Recorded(table, stage) ==
  \E a \in assigned : /\ a.table = table
                      /\ Stage(a.line) = stage
                      /\ a.val.subject \in Products(stage)

\* C3 as stated: once a technique's section has completed, both a MODEL_SIZE entry
\* and an ACCURACY entry have been recorded for the model the technique produced.
C3_Original ==
  \A t \in Techniques :
    StageOver(t) => Recorded("MODEL_SIZE", t) /\ Recorded("ACCURACY", t)

\* C3 (amended): that holds for post-training quantization and for pruning; the
\* quantization-aware section records accuracy entries only and assigns nothing to
\* MODEL_SIZE.
C3_SizeAndAccuracyRecorded ==
  /\ \A t \in {"post_training", "pruning"} :
       StageOver(t) => Recorded("MODEL_SIZE", t) /\ Recorded("ACCURACY", t)
  /\ StageOver("quant_aware") =>
       /\ Recorded("ACCURACY", "quant_aware")
       /\ \A a \in assigned : Stage(a.line) = "quant_aware" => a.table = "ACCURACY"
  /\ \A a \in assigned : a.table = "MODEL_SIZE" => a.val.subject # FILE_QAT_QUANTIZED

C3_Witness ==
  /\ StageOver("pruning")
  /\ \E a \in assigned : a.line = 448 /\ a.val.subject = FILE_PT_QUANTIZED
  /\ \E a \in assigned : a.line = 623 /\ a.val.subject = FILE_QAT_QUANTIZED
  /\ \E a \in assigned : a.line = 1061 /\ a.val.subject = FILE_PRUNED_QUANTIZED_TFLITE

Stages == {"baseline"} \cup Techniques

\* print_metric has printed the named dictionary in the section
Printed(table, stage) ==
  \E i \in 1..Len(console) : console[i].table = table /\ Stage(console[i].line) = stage

\* every entry the section stored was printed later in the same section
StoredThenPrinted(stage) ==
  \A a \in assigned : Stage(a.line) = stage =>
    \E i \in 1..Len(console) : /\ console[i].table = a.table
                               /\ Stage(console[i].line) = stage
                               /\ console[i].line > a.line
                               /\ a.key \in console[i].keys

\* C4 as stated: when a section is over (before the next begins), both dictionaries
\* have been printed in it.
C4_Original ==
  \A st \in Stages : StageOver(st) => Printed("MODEL_SIZE", st) /\ Printed("ACCURACY", st)

\* C4 (amended): after baseline training, post-training quantization and pruning both
\* dictionaries have been printed; after quantization-aware training only ACCURACY
\* has. In every section each stored entry is printed before the section ends.
C4_TablesPrinted ==
  /\ \A st \in {"baseline", "post_training", "pruning"} :
       StageOver(st) => Printed("MODEL_SIZE", st) /\ Printed("ACCURACY", st)
  /\ StageOver("quant_aware") => Printed("ACCURACY", "quant_aware")
  /\ ~Printed("MODEL_SIZE", "quant_aware")
  /\ \A st \in Stages : StageOver(st) => StoredThenPrinted(st)

C4_Witness ==
  /\ StageOver("quant_aware") /\ pc = IndexOfLine(683)
  /\ Printed("ACCURACY", "quant_aware")
  /\ Printed("MODEL_SIZE", "post_training")

\* C5: every read of an artifact file (getsize, get_gzipped_model_size, the
\* interpreter's load, load_weights) finds the file as this run wrote it earlier:
\* never a missing file, and never one left over from before the run.
C5_ReadsAfterWrites ==
  \A r \in reads : r.kind \in {"weights", "h5", "tflite"}

C5_Witness ==
  /\ Done
  /\ files[FILE_PRUNED_NON_QUANTIZED_TFLITE].kind = "stale"
  /\ {r.line : r \in reads} =
       {287, 374, 394, 448, 452, 527, 623, 991, 992, 1014, 1015, 1061, 1085}

\* C7: an exception is caught nowhere. The step in which a statement raises leaves
\* both dictionaries (and the position in the run) as they were before that
\* statement, and once the run has failed no statement executes any more.
C7_UncaughtExceptionEndsRun ==
  [][ /\ failed' => /\ MODEL_SIZE' = MODEL_SIZE
                    /\ ACCURACY' = ACCURACY
                    /\ assigned' = assigned
                    /\ console' = console
                    /\ pc' = pc
      /\ failed => UNCHANGED vars ]_vars

C7_Witness ==
  /\ failed /\ pc = IndexOfLine(452)
  /\ Keys(MODEL_SIZE) = {"baseline h5", "non quantized tflite",
                         "post training quantized tflite"}
  /\ Keys(ACCURACY) = {"baseline Keras model", "non quantized tflite"}

\* C8: every image array handed to a training or evaluation call holds, for each raw
\* pixel p of the loaded dataset, the value p/255, scaled exactly once; so it lies in
\* [0,1], 0 maps to 0 and 255 maps to 1.
C8_PixelsNormalizedOnce ==
  \A u \in fed :
    LET raw == IF u.src = "train_images" THEN dataset.train ELSE dataset.test
    IN  /\ DOMAIN u.images = DOMAIN raw
        /\ \A i \in DOMAIN raw :
             /\ u.images[i] = <<raw[i], PixelScale>>
             /\ 0 <= u.images[i][1] /\ u.images[i][1] <= u.images[i][2]
             /\ raw[i] = 0 => u.images[i][1] = 0
             /\ raw[i] = 255 => u.images[i][1] = u.images[i][2]

C8_Witness ==
  /\ Done
  /\ \E u \in fed : u.line = 262 /\ u.images[1] = <<255, 255>>
  /\ \E u \in fed : u.line = 1085 /\ u.images[1] = <<0, 255>>
  /\ {u.line : u \in fed} = {262, 265, 394, 452, 564, 616, 623, 796, 1084, 1085}

\* C9: convert_tflite sets the converter's optimization exactly when it is called
\* with quantize=True, and not when the argument is left out; so non_quantized.tflite
\* is written unoptimized and the three quantized exports are written optimized.
C9_OptimizeIffQuantize ==
  /\ \A c \in conversions : c.optimized <=> (c.quantize = "True")
  /\ \A c \in conversions : c.file = FILE_NON_QUANTIZED_TFLITE <=> c.quantize = "unset"
  /\ files[FILE_NON_QUANTIZED_TFLITE].kind = "tflite" =>
       ~files[FILE_NON_QUANTIZED_TFLITE].optimized
  /\ \A f \in {FILE_PT_QUANTIZED, FILE_QAT_QUANTIZED, FILE_PRUNED_QUANTIZED_TFLITE} :
       files[f].kind = "tflite" => files[f].optimized
  /\ Done => {c.file : c \in conversions} =
               {FILE_NON_QUANTIZED_TFLITE, FILE_PT_QUANTIZED, FILE_QAT_QUANTIZED,
                FILE_PRUNED_QUANTIZED_TFLITE}

C9_Witness ==
  /\ Done
  /\ Cardinality(conversions) = 4
  /\ files[FILE_NON_QUANTIZED_TFLITE].kind = "tflite"
  /\ files[FILE_PRUNED_QUANTIZED_TFLITE].optimized

\* C10 as stated: end_step is the number of training steps model_for_pruning.fit
\* performs, so the schedule reaches its final sparsity at the last training step and
\* not earlier.
C10_Original ==
  /\ sparse_at # -1 => sparse_at = FitSteps(TrainSetSize, PruneFitArgs)
  /\ fit_pc = "done" => end_step = fit_step

----------------------------------------------------------------------------
(* Properties of evaluate_tflite_model *)

\* the scores the model produced for the i-th test image
OutputFor(i) ==
  LET k == CHOOSE k \in 1..Len(interp_log) :
             interp_log[k].call = "invoke" /\ interp_log[k].i = i
  IN  interp_log[k].out

\* digit d is the argmax of scores o: the first position holding the largest score
IsArgMax(d, o) ==
  /\ d + 1 \in 1..Len(o)
  /\ \A j \in 1..Len(o) : o[j] <= o[d + 1]
  /\ \A j \in 1..d : o[j] < o[d + 1]

\* the test images whose label is the argmax of the model's output
Hits == {i \in 1..Len(x_test) : IsArgMax(y_test[i], OutputFor(i))}

\* C6: for a non-empty test set of N images and N labels the returned accuracy is
\* (number of images whose label equals the argmax of the model output) / N; it
\* lies in [0,1] and is 1 only when every prediction matches.
C6_AccuracyIsHitRatio ==
  (ev_pc = "done" /\ Len(x_test) > 0) =>
    /\ accuracy = <<Cardinality(Hits), Len(x_test)>>
    /\ 0 <= accuracy[1] /\ accuracy[1] <= accuracy[2]
    /\ accuracy[1] = accuracy[2] <=> Hits = 1..Len(x_test)

C6_Witness ==
  /\ ev_pc = "done" /\ Len(x_test) = 2
  /\ accuracy = <<1, 2>>
  /\ Hits = {2}
  /\ OutputFor(1) = OutputFor(2)

\* the interpreter calls for the first n test images, as the loop makes them:
\* allocate_tensors once, then per image set_tensor, invoke, one read of the output
CallsInOrder(n) ==
  /\ Len(interp_log) >= 1 + 3 * n
  /\ interp_log[1].call = "allocate_tensors"
  /\ \A i \in 1..n :
       /\ interp_log[3 * i - 1].call = "set_tensor"
       /\ interp_log[3 * i - 1].i = i
       /\ interp_log[3 * i - 1].image = x_test[i]
       /\ interp_log[3 * i].call = "invoke"
       /\ interp_log[3 * i].i = i
       /\ interp_log[3 * i].image = x_test[i]
       /\ interp_log[3 * i + 1].call = "tensor"
       /\ interp_log[3 * i + 1].i = i
       /\ interp_log[3 * i + 1].out = interp_log[3 * i].out

\* C11: predictions are run on every test image in test-set order; per image the
\* interpreter does set_tensor, invoke and one read of the output, once each, the
\* read for image i coming after its invoke and before the set_tensor for image
\* i+1; when the loop ends prediction_digits has one entry per test image.
C11_OnePredictionPerImage ==
  /\ ev_pc \in {"loop", "done"} =>
       /\ CallsInOrder(ev_i)
       /\ Len(interp_log) = 1 + 3 * ev_i
       /\ Len(prediction_digits) = ev_i
       /\ \A i \in 1..ev_i : IsArgMax(prediction_digits[i], interp_log[3 * i + 1].out)
  /\ ev_pc = "done" => ev_i = Len(x_test)

C11_Witness ==
  /\ ev_pc = "done" /\ Len(x_test) = 2
  /\ x_test = <<2, 1>>
  /\ Len(interp_log) = 7
  /\ prediction_digits = <<1, 0>>

----------------------------------------------------------------------------
(* Further properties of the run *)

\* the checkpoint as baseline_model.save_weights wrote it at line 235
InitialCheckpoint ==
  [kind |-> "weights", model |-> "baseline_model", weights |-> InitialBaselineWeights,
   optimized |-> FALSE]

\* C12: the model that enters quantization-aware training starts from the baseline
\* model's initial weights: the checkpoint it loads was written before
\* baseline_model.fit and stays as written, so baseline training (line 262) leaves
\* no trace in model_to_quantize or q_aware_model.
C12_QuantAwareStartsFromInitial ==
  /\ Past(235) => files[FILE_WEIGHTS] = InitialCheckpoint
  /\ Past(527) => models["model_to_quantize"].weights = InitialBaselineWeights
  /\ models["q_aware_model"].built =>
       /\ models["q_aware_model"].weights.init = "baseline_model"
       /\ models["q_aware_model"].weights.fits \in {<<>>, <<564>>}
  /\ (models["q_aware_model"].built /\ ~failed /\ pc <= IndexOfLine(564)) =>
       models["q_aware_model"].weights = InitialBaselineWeights

C12_Witness ==
  /\ ~failed /\ pc = IndexOfLine(564)
  /\ models["q_aware_model"].weights = InitialBaselineWeights
  /\ models["baseline_model"].weights.fits = <<262>>
  /\ \E r \in reads : r.line = 527 /\ r.file = FILE_WEIGHTS /\ r.kind = "weights"

\* the entry ACCURACY['pruned model h5'], where there is one
PrunedH5Entries == {e \in ACCURACY : e.key = "pruned model h5"}

\* C13 as stated: the accuracy recorded under 'pruned model h5' is measured on
\* model_for_export, the stripped model that was saved to pruned_model.h5.
C13_Original ==
  \A e \in PrunedH5Entries : e.val.subject = "model_for_export"

\* C13 (amended): the accuracy recorded under 'pruned model h5' is measured with
\* model_for_pruning.evaluate, on the wrapped model that was trained with pruning;
\* model_for_export was stripped from it after that training and saved to
\* pruned_model.h5, so the weights measured are the weights saved.
C13_MeasuredOnModelForPruning ==
  /\ \A e \in PrunedH5Entries :
       /\ e.val.how = "keras_evaluate"
       /\ e.val.subject = "model_for_pruning"
       /\ e.val.weights = models["model_for_pruning"].weights
       /\ e.val.weights = models["model_for_export"].weights
       /\ e.val.weights = files[FILE_PRUNED_MODEL_H5].weights
       /\ files[FILE_PRUNED_MODEL_H5].model = "model_for_export"
       /\ e.val.weights.fits = <<262, 796>>
  /\ Past(1084) => PrunedH5Entries # {}

C13_Witness ==
  /\ Done
  /\ PrunedH5Entries # {}
  /\ files[FILE_PRUNED_MODEL_H5].kind = "h5"

\* this step writes file f from baseline_model (save_weights, save or convert_tflite)
BaselineWrite(f) ==
  files'[f] # files[f] /\ files'[f].model = "baseline_model"

\* baseline training (line 262) has completed and pruning has not started
BetweenTrainingAndPruning ==
  /\ models["baseline_model"].weights.fits = <<262>>
  /\ ~models["model_for_pruning"].built
  /\ fit_pc = "idle"

\* this step passes baseline_model to prune_low_magnitude
PassedToPruning ==
  ~models["model_for_pruning"].built /\ models'["model_for_pruning"].built

\* C14 as stated: baseline_model is passed to pruning only after its training, and
\* every file written from baseline_model is written between the end of baseline
\* training and the start of pruning.
C14_Original ==
  [][ /\ PassedToPruning => models["baseline_model"].weights.fits = <<262>>
      /\ \A f \in FileConstants : BaselineWrite(f) => BetweenTrainingAndPruning ]_vars

\* C14 (amended): baseline_model is passed to pruning only after its training, and
\* non_quantized.h5, non_quantized.tflite and post_training_quantized.tflite are
\* written between the end of baseline training and the start of pruning; the one
\* other file written from baseline_model, the checkpoint baseline_weights.h5, is
\* written before baseline training.
C14_BaselineExportsBeforePruning ==
  [][ /\ PassedToPruning =>
           /\ models["baseline_model"].weights.fits = <<262>>
           /\ models'["model_for_pruning"].weights = models["baseline_model"].weights
      /\ \A f \in FileConstants \ {FILE_WEIGHTS} :
           BaselineWrite(f) =>
             /\ BetweenTrainingAndPruning
             /\ f \in {FILE_NON_QUANTIZED_H5, FILE_NON_QUANTIZED_TFLITE, FILE_PT_QUANTIZED}
      /\ BaselineWrite(FILE_WEIGHTS) =>
           /\ models["baseline_model"].weights.fits = <<>>
           /\ ~models["model_for_pruning"].built
      /\ (models'["model_for_pruning"].built /\ ~failed') =>
           \A f \in {FILE_NON_QUANTIZED_H5, FILE_NON_QUANTIZED_TFLITE, FILE_PT_QUANTIZED} :
             /\ files'[f].model = "baseline_model"
             /\ files'[f].weights.fits = <<262>> ]_vars

C14_Witness ==
  /\ Done
  /\ models["model_for_pruning"].weights.fits = <<262, 796>>
  /\ \A f \in {FILE_NON_QUANTIZED_H5, FILE_NON_QUANTIZED_TFLITE, FILE_PT_QUANTIZED} :
       files[f].model = "baseline_model" /\ files[f].weights.fits = <<262>>
  /\ files[FILE_WEIGHTS].weights.fits = <<>>

====
